---- MODULE Spec2Model ----
(***************************************************************************)
(* Model of merge_sprinkler_data.py: the name normalizer (normalize_name), *)
(* the scorer (similarity_score), the matcher (find_best_match) and the    *)
(* batch run (main).                                                       *)
(*                                                                         *)
(* A Python str is a sequence of one-character strings.  A float score is  *)
(* the exact fraction it rounds: a record [num, den] in lowest terms, so   *)
(* two scores are the same float exactly when the records are equal (the   *)
(* fractions met here have denominators far below 2^26).                   *)
(***************************************************************************)
EXTENDS Integers, Sequences, FiniteSets, TLC

VARIABLES
    \* normalize_name applied to one input, then to its own output
    name, stripped, normalized, renormalized, npc,
    \* one call of find_best_match
    query, pool, order, threshold, result, mpc,
    \* one run of main
    pc, sprinkler_data, playground_data, sprinkler_names, names_order,
    sprinkler_lookup, enhanced_playgrounds, matched, output_file,
    output_written, load_error, write_attempts

normVars == <<name, stripped, normalized, renormalized, npc>>
matchVars == <<query, pool, order, threshold, result, mpc>>
mainVars == <<pc, sprinkler_data, playground_data, sprinkler_names, names_order,
              sprinkler_lookup, enhanced_playgrounds, matched, output_file,
              output_written, load_error, write_attempts>>
vars == <<normVars, matchVars, mainVars>>

\* Python's None; every str of the model is a sequence of characters, so None
\* can be compared with any of them
None == <<"None">>

(***************************************************************************)
(* Characters and the str methods the program uses.                        *)
(***************************************************************************)
UpperChars == <<"A","B","C","D","E","F","G","H","I","J","K","L","M",
                "N","O","P","Q","R","S","T","U","V","W","X","Y","Z">>
LowerChars == <<"a","b","c","d","e","f","g","h","i","j","k","l","m",
                "n","o","p","q","r","s","t","u","v","w","x","y","z">>

\* \s : whitespace
IsSpace(c) == c \in {" ", "\t"}

\* characters that are neither \w nor \s ("_" is a \w character)
PunctChars == {".", "'", "-", ",", "&"}

ToLower(c) ==
    IF \E i \in 1..26 : UpperChars[i] = c
    THEN LowerChars[CHOOSE i \in 1..26 : UpperChars[i] = c]
    ELSE c

\* str.lower()
Lower(s) == [i \in 1..Len(s) |-> ToLower(s[i])]

RECURSIVE LStrip(_)
LStrip(s) == IF s # <<>> /\ IsSpace(Head(s)) THEN LStrip(Tail(s)) ELSE s

RECURSIVE RStrip(_)
RStrip(s) ==
    IF s # <<>> /\ IsSpace(s[Len(s)]) THEN RStrip(SubSeq(s, 1, Len(s) - 1)) ELSE s

\* str.strip()
Strip(s) == RStrip(LStrip(s))

\* str.endswith(suf)
EndsWith(s, suf) ==
    /\ Len(suf) <= Len(s)
    /\ SubSeq(s, Len(s) - Len(suf) + 1, Len(s)) = suf

\* re.sub(r'[^\w\s]', ' ', s)
SubPunct(s) == [i \in 1..Len(s) |-> IF s[i] \in PunctChars THEN " " ELSE s[i]]

\* re.sub(r'\s+', ' ', s): every maximal run of whitespace becomes one space
RECURSIVE CollapseSpaces(_)
CollapseSpaces(s) ==
    IF s = <<>> THEN <<>>
    ELSE IF IsSpace(Head(s))
         THEN <<" ">> \o CollapseSpaces(LStrip(s))
         ELSE <<Head(s)>> \o CollapseSpaces(Tail(s))

\* the first whitespace-delimited word of s (s starts with a non-space)
RECURSIVE FirstWord(_)
FirstWord(s) ==
    IF s = <<>> \/ IsSpace(Head(s)) THEN <<>> ELSE <<Head(s)>> \o FirstWord(Tail(s))

\* set(s.split())
RECURSIVE Words(_)
Words(s) ==
    LET t == LStrip(s)
    IN  IF t = <<>> THEN {}
        ELSE LET w == FirstWord(t)
             IN  {w} \cup Words(SubSeq(t, Len(w) + 1, Len(t)))

(***************************************************************************)
(* normalize_name                                                          *)
(***************************************************************************)
suffixes_to_remove ==
    << <<" ","p","l","a","y","g","r","o","u","n","d">>,
       <<" ","p","l","g","d">>,
       <<" ","p","a","r","k"," ","p","l","a","y","g","r","o","u","n","d">>,
       <<" ","p","a","r","k">>,
       <<" ","t","o","t"," ","l","o","t">>,
       <<" ","p","l","a","y","g","r","n","d">>,
       <<" ","p","l","g","r","n","d">> >>

\* The loop over suffixes_to_remove, had it a break after the first suffix it
\* removes.
RECURSIVE SuffixLoopBreak(_, _, _)
SuffixLoopBreak(s, i, removed) ==
    IF i > Len(suffixes_to_remove) THEN [text |-> s, removed |-> removed]
    ELSE IF EndsWith(s, suffixes_to_remove[i])
         THEN [text |-> Strip(SubSeq(s, 1, Len(s) - Len(suffixes_to_remove[i]))),
               removed |-> Append(removed, i)]
         ELSE SuffixLoopBreak(s, i + 1, removed)

\* for suffix in suffixes_to_remove: if normalized.endswith(suffix): ...
\* from the i-th suffix on; removed lists the indices of the suffixes removed.
RECURSIVE SuffixLoop(_, _, _)
SuffixLoop(s, i, removed) ==
    IF i > Len(suffixes_to_remove) THEN [text |-> s, removed |-> removed]
    ELSE IF EndsWith(s, suffixes_to_remove[i])
         THEN SuffixLoop(Strip(SubSeq(s, 1, Len(s) - Len(suffixes_to_remove[i]))),
                         i + 1, Append(removed, i))
         ELSE SuffixLoop(s, i + 1, removed)

\* name.lower().strip()
Lowered(s) == Strip(Lower(s))

\* the suffix step of normalize_name on the raw name s
SuffixStep(s) == SuffixLoop(Lowered(s), 1, <<>>)

\* not name: None and "" are both falsy
IsEmptyName(s) == s = None \/ s = <<>>

\* the body of normalize_name
NormalizeOf(s) ==
    IF IsEmptyName(s) THEN <<>>
    ELSE Strip(CollapseSpaces(SubPunct(SuffixStep(s).text)))

(***************************************************************************)
(* The names a query and the candidates of a pool are drawn from.           *)
(***************************************************************************)
LongWord ==
    <<"q","b","c","d","e","f","g","h","i","j","k","l","m","n","o","p","q","r","s","t",
      "u","v","w","x","y","z","0","1","2","3","4","5","6","7","8","9","a","b","c","d",
      "e","f","g","h","i","j","k","l">>

\* the candidates a pool is drawn from
MatchNames ==
    { <<"F","o","r","t"," ","G","r","e","e","n","e"," ","P","a","r","k">>,
      <<"F","o","r","t"," ","G","r","e","e","n","e"," ","P","l","a","y","g","r","o","u","n","d">>,
      <<"a"," ","b"," ","d">>,
      <<"a"," ","b"," ","e">>,
      <<"a"," ","b"," ","c","d">>,
      <<"D","i","a","n","a"," ","R","o","s","s"," ","P","a","r","k">>,
      <<".",".",".">>,
      <<"z"," ">> \o LongWord \o <<"m">> }

\* the queries: None, "", and names
Queries ==
    { None, <<>>,
      <<"F","o","r","t"," ","G","r","e","e","n","e"," ","P","a","r","k">>,
      <<"a"," ","b"," ","c">>,
      <<"A"," ","B"," ","D">>,
      <<"D","a","n"," ","R","o","s","s"," ","P","l","a","y","g","r","o","u","n","d">>,
      <<"z"," ">> \o LongWord }

\* normalize_name is pure: its values on the names the matcher meets are
\* computed once and looked up afterwards
KnownNames == MatchNames \cup Queries

NormTable == [s \in KnownNames |-> NormalizeOf(s)]

normalize_name(s) == IF s \in KnownNames THEN NormTable[s] ELSE NormalizeOf(s)

(***************************************************************************)
(* Inputs of the normalizer: a stem followed by up to MaxTail tail pieces. *)
(***************************************************************************)
MaxTail == 2

Stems ==
    { <<"a">>, <<"B","."," ","c">>, <<"S","t","."," ","M","a","r","y","'","s">>,
      <<" ","d","_","e">> }

TailPieces ==
    { <<" ","p","l","a","y","g","r","o","u","n","d">>,
      <<" ","P","a","r","k">>,
      <<" ","p","l","g","d">>,
      <<" ","T","o","t"," ","L","o","t">>,
      <<" ","p","l","a","y","g","r","n","d">>,
      <<" ","p","l","g","r","n","d">>,
      <<".">>, <<" ">>, <<"\t","x">> }

RECURSIVE TailsUpTo(_)
TailsUpTo(n) ==
    IF n = 0 THEN {<<>>}
    ELSE LET shorter == TailsUpTo(n - 1)
         IN  shorter \cup {t \o p : t \in shorter, p \in TailPieces}

NormInputs == {None, <<>>} \cup {s \o t : s \in Stems, t \in TailsUpTo(MaxTail)}

\* the local variable normalized before the suffix loop has run
NotStripped == [text |-> <<>>, removed |-> <<>>]

\* the variables of the calls and of the run a specification does not use
NormIdle ==
    /\ name = None /\ stripped = NotStripped /\ normalized = None
    /\ renormalized = None /\ npc = "idle"

MatchIdle ==
    /\ query = None /\ pool = {} /\ order = <<>> /\ threshold = <<>>
    /\ result = <<>> /\ mpc = "idle"

MainIdle ==
    /\ pc = "idle" /\ sprinkler_data = <<>> /\ playground_data = <<>>
    /\ sprinkler_names = {} /\ names_order = <<>> /\ sprinkler_lookup = <<>>
    /\ enhanced_playgrounds = <<>> /\ matched = <<>> /\ output_file = <<>>
    /\ output_written = FALSE /\ load_error = "none" /\ write_attempts = 0

NormInit ==
    /\ MatchIdle
    /\ MainIdle
    /\ name \in NormInputs
    /\ stripped = NotStripped
    /\ normalized = None
    /\ renormalized = None
    /\ npc = "input"

\* normalized = normalize_name(name); stripped is the value the local variable
\* has when the suffix loop ends (the early return never reaches the loop)
Normalize ==
    /\ npc = "input"
    /\ stripped' = IF IsEmptyName(name) THEN NotStripped ELSE SuffixStep(name)
    /\ normalized' = normalize_name(name)
    /\ npc' = "normalized"
    /\ UNCHANGED <<name, renormalized, matchVars, mainVars>>

\* normalize_name applied to its own output
Renormalize ==
    /\ npc = "normalized"
    /\ renormalized' = normalize_name(normalized)
    /\ npc' = "renormalized"
    /\ UNCHANGED <<name, stripped, normalized, matchVars, mainVars>>

NormNext ==
    \/ Normalize
    \/ Renormalize

SpecNormalize == NormInit /\ [][NormNext]_vars

(***************************************************************************)
(* Scores.  2.0 * M / T and the literals 0.8, 0.98, 0.99, 1.0 are floats;  *)
(* a score is kept as the fraction in lowest terms, compared exactly.      *)
(***************************************************************************)
RECURSIVE GCD(_, _)
GCD(a, b) == IF b = 0 THEN a ELSE GCD(b, a % b)

Frac(n, d) == LET g == GCD(n, d) IN [num |-> n \div g, den |-> d \div g]

Less(x, y) == x.num * y.den < y.num * x.den

\* 0.0 and 1.0
ZeroScore == [num |-> 0, den |-> 1]
OneScore == [num |-> 1, den |-> 1]

(***************************************************************************)
(* difflib.SequenceMatcher(None, a, b).ratio() for len(b) < 200 (no junk,  *)
(* and the autojunk heuristic needs 200 elements).  Positions are 1-based, *)
(* a range lo..hi-1 is given as (lo, hi) like Python's half-open ranges.   *)
(***************************************************************************)
\* the length of the longest common run starting at a[i], b[j] within the ranges
RECURSIVE CommonLen(_, _, _, _, _, _)
CommonLen(a, i, ahi, b, j, bhi) ==
    IF i < ahi /\ j < bhi /\ a[i] = b[j]
    THEN 1 + CommonLen(a, i + 1, ahi, b, j + 1, bhi)
    ELSE 0

\* find_longest_match: the longest matching block of a[alo:ahi] and b[blo:bhi];
\* of the longest ones the block starting earliest in a, and of those the
\* one starting earliest in b
find_longest_match(a, alo, ahi, b, blo, bhi) ==
    LET starts == {p \in (alo..(ahi - 1)) \X (blo..(bhi - 1)) :
                       /\ a[p[1]] = b[p[2]]
                       /\ (p[1] = alo \/ p[2] = blo \/ a[p[1] - 1] # b[p[2] - 1])}
        size[p \in starts] == CommonLen(a, p[1], ahi, b, p[2], bhi)
    IN  IF starts = {} THEN [i |-> alo, j |-> blo, size |-> 0]
        ELSE LET best == CHOOSE p \in starts :
                             \A q \in starts :
                                 \/ size[q] < size[p]
                                 \/ /\ size[q] = size[p]
                                    /\ \/ p[1] < q[1]
                                       \/ p[1] = q[1] /\ p[2] <= q[2]
             IN  [i |-> best[1], j |-> best[2], size |-> size[best]]

\* get_matching_blocks: the total size of the blocks found by splitting around
\* the longest match, left and right, recursively
RECURSIVE matching_size(_, _, _, _, _, _)
matching_size(a, alo, ahi, b, blo, bhi) ==
    LET m == find_longest_match(a, alo, ahi, b, blo, bhi)
    IN  IF m.size = 0 THEN 0
        ELSE m.size
             + (IF alo < m.i /\ blo < m.j
                THEN matching_size(a, alo, m.i, b, blo, m.j) ELSE 0)
             + (IF m.i + m.size < ahi /\ m.j + m.size < bhi
                THEN matching_size(a, m.i + m.size, ahi, b, m.j + m.size, bhi)
                ELSE 0)

\* ratio(): 2.0 * matches / (len(a) + len(b)), 1.0 for two empty sequences
ratio(a, b) ==
    IF Len(a) + Len(b) = 0 THEN OneScore
    ELSE Frac(2 * matching_size(a, 1, Len(a) + 1, b, 1, Len(b) + 1), Len(a) + Len(b))

(***************************************************************************)
(* similarity_score and find_best_match                                    *)
(***************************************************************************)
\* the body of similarity_score
ScoreOf(name1, name2) ==
    LET norm1 == normalize_name(name1)
        norm2 == normalize_name(name2)
    IN  IF norm1 = <<>> \/ norm2 = <<>> THEN ZeroScore
        ELSE IF norm1 = norm2 THEN OneScore
        ELSE IF Words(norm1) \cap Words(norm2) = {} THEN ZeroScore
        ELSE ratio(norm1, norm2)

\* similarity_score is pure: its values on the names of the model are computed
\* once and looked up afterwards
ScoreTable == [p \in Queries \X MatchNames |-> ScoreOf(p[1], p[2])]

similarity_score(name1, name2) ==
    IF name1 \in Queries /\ name2 \in MatchNames
    THEN ScoreTable[<<name1, name2>>]
    ELSE ScoreOf(name1, name2)

\* len(shared_words) of the validation in find_best_match
SharedOf(name1, name2) ==
    Cardinality(Words(normalize_name(name1)) \cap Words(normalize_name(name2)))

\* computed once on the names of the model, like ScoreTable
SharedTable == [p \in Queries \X MatchNames |-> SharedOf(p[1], p[2])]

SharedWords(name1, name2) ==
    IF name1 \in Queries /\ name2 \in MatchNames
    THEN SharedTable[<<name1, name2>>]
    ELSE SharedOf(name1, name2)

\* the literal 0.99
NearOne == [num |-> 99, den |-> 100]

\* The validation of the fuzzy loop, had it no shared-word requirement.
AcceptsAnyShared(playground_name, sprinkler_name, score) == TRUE

\* if len(shared_words) >= 2 or score > 0.99
Accepts(playground_name, sprinkler_name, score) ==
    SharedWords(playground_name, sprinkler_name) >= 2 \/ Less(NearOne, score)

\* The running-best test, had it no comparison with the best score so far.
BetterNoMax(best_score, score, thr) == ~Less(score, thr)

\* The running-best test, had it >= where the code has >.
BetterOrEqual(best_score, score, thr) ==
    ~Less(score, best_score) /\ Less(ZeroScore, score) /\ ~Less(score, thr)

\* if score > best_score and score >= threshold
Better(best_score, score, thr) == Less(best_score, score) /\ ~Less(score, thr)

\* The second loop of find_best_match from position i on; scored counts the
\* calls of similarity_score made so far.
RECURSIVE FuzzyLoop(_, _, _, _, _, _)
FuzzyLoop(playground_name, names, thr, i, best, scored) ==
    IF i > Len(names)
    THEN [match |-> best.match, score |-> best.score, scored |-> scored]
    ELSE LET score == similarity_score(playground_name, names[i])
             better == /\ Better(best.score, score, thr)
                       /\ Accepts(playground_name, names[i], score)
         IN  FuzzyLoop(playground_name, names, thr, i + 1,
                       IF better THEN [match |-> names[i], score |-> score] ELSE best,
                       scored + 1)

\* The first loop of find_best_match, had it been left out.
ExactPassSkipped(playground_name, names) == {}

\* The positions the first loop of find_best_match returns at, if it gets there:
\* the candidates whose normalized name equals the normalized query.
ExactPass(playground_name, names) ==
    {i \in 1..Len(names) : normalize_name(names[i]) = normalize_name(playground_name)}

\* The minimum of a non-empty set of positions
First(S) == CHOOSE i \in S : \A j \in S : i <= j

\* find_best_match(playground_name, sprinkler_names, threshold), names being
\* the candidates in the order the iteration yields them.  The result is
\* (match, score); scored is the number of candidates the fuzzy loop scored.
find_best_match(playground_name, names, thr) ==
    LET exact == ExactPass(playground_name, names)
    IN  IF exact # {}
        THEN [match |-> names[First(exact)], score |-> OneScore, scored |-> 0]
        ELSE FuzzyLoop(playground_name, names, thr, 1,
                       [match |-> None, score |-> ZeroScore], 0)

\* The orders in which a set may be iterated
Orders(S) ==
    {f \in [1..Cardinality(S) -> S] : \A i, j \in 1..Cardinality(S) : f[i] = f[j] => i = j}

(***************************************************************************)
(* One call of find_best_match: the query and the pool are drawn first,    *)
(* the call picks the pool's iteration order and the threshold.            *)
(***************************************************************************)
MaxPool == 2

Thresholds ==
    { [num |-> 0, den |-> 1], [num |-> 4, den |-> 5], [num |-> 9, den |-> 10],
      [num |-> 49, den |-> 50], [num |-> 3, den |-> 2] }

MatchInit ==
    /\ NormIdle
    /\ MainIdle
    /\ query \in Queries
    /\ pool \in {S \in SUBSET MatchNames : Cardinality(S) <= MaxPool}
    /\ order = <<>>
    /\ threshold = <<>>
    /\ result = <<>>
    /\ mpc = "call"

\* result = find_best_match(query, pool, threshold)
Resolve ==
    /\ mpc = "call"
    /\ \E o \in Orders(pool), t \in Thresholds :
           /\ order' = o
           /\ threshold' = t
           /\ result' = find_best_match(query, o, t)
    /\ mpc' = "returned"
    /\ UNCHANGED <<query, pool, normVars, mainVars>>

MatchNext == Resolve

SpecMatch == MatchInit /\ [][MatchNext]_vars

(***************************************************************************)
(* main: the two input files, the pool and the side-table, the loop over   *)
(* the playground records, the output file.                                *)
(***************************************************************************)
MaxSprinklers == 2
MaxPlaygrounds == 2

\* dict.get(key, default)
Get(d, key, default) == IF key \in DOMAIN d THEN d[key] ELSE default

\* d[key] = value on a dict
Assign(d, key, value) ==
    [k \in DOMAIN d \cup {key} |-> IF k = key THEN value ELSE d[k]]

\* the records sprinklers.json may hold
SprinklerRecords ==
    { [subpropertyname |-> <<"a"," ","b"," ","d"," ">>, status |-> <<"O","n">>,
       system |-> <<"S","1">>, district |-> <<"D","1">>],
      [subpropertyname |-> <<"a"," ","b"," ","d">>, system |-> <<"S","2">>],
      [subpropertyname |-> <<"a"," ","b"," ","e">>, status |-> <<"O","f","f">>,
       system |-> <<"S","3">>, district |-> <<"D","3">>, featuretype |-> <<"F">>],
      [subpropertyname |-> <<" ">>, status |-> <<"O","n">>] }

\* the records DPR_Playgrounds_001.json may hold
PlaygroundRecords ==
    { [Name |-> <<"A"," ","B"," ","D">>, Prop_ID |-> <<"X","1">>],
      [Name |-> <<" ","a"," ","b"," ","c">>, Prop_ID |-> <<"X","2">>],
      [Prop_ID |-> <<"X","3">>],
      [Name |-> <<" ">>, Prop_ID |-> <<"X","4">>],
      [Name |-> <<"D","a","n"," ","R","o","s","s"," ","P","l","a","y","g","r","o","u","n","d">>,
       Prop_ID |-> <<"X","5">>] }

RECURSIVE SeqsUpTo(_, _)
SeqsUpTo(S, n) ==
    IF n = 0 THEN {<<>>}
    ELSE LET shorter == SeqsUpTo(S, n - 1)
         IN  shorter \cup {Append(q, x) : q \in shorter, x \in S}

SprinklerFiles == SeqsUpTo(SprinklerRecords, MaxSprinklers)
PlaygroundFiles == SeqsUpTo(PlaygroundRecords, MaxPlaygrounds)

Init ==
    /\ NormIdle
    /\ MatchIdle
    /\ pc = "load_sprinklers"
    /\ sprinkler_data = <<>>
    /\ playground_data = <<>>
    /\ sprinkler_names = {}
    /\ names_order = <<>>
    /\ sprinkler_lookup = <<>>
    /\ enhanced_playgrounds = <<>>
    /\ matched = <<>>
    /\ output_file = <<>>
    /\ output_written = FALSE
    /\ load_error = "none"
    /\ write_attempts = 0

\* what main leaves alone while it loads its inputs
LoadFrame ==
    UNCHANGED <<sprinkler_names, names_order, sprinkler_lookup,
                enhanced_playgrounds, matched, output_file, output_written,
                write_attempts, normVars, matchVars>>

\* sprinkler_data = json.load(f)
SprinklersLoaded ==
    /\ pc = "load_sprinklers"
    /\ sprinkler_data' \in SprinklerFiles
    /\ pc' = "load_playgrounds"
    /\ UNCHANGED <<playground_data, load_error>>
    /\ LoadFrame

\* except FileNotFoundError: return
SprinklersNotFound ==
    /\ pc = "load_sprinklers"
    /\ load_error' = "sprinklers_not_found"
    /\ pc' = "returned"
    /\ UNCHANGED <<sprinkler_data, playground_data>>
    /\ LoadFrame

\* except json.JSONDecodeError: return
SprinklersMalformed ==
    /\ pc = "load_sprinklers"
    /\ load_error' = "sprinklers_malformed"
    /\ pc' = "returned"
    /\ UNCHANGED <<sprinkler_data, playground_data>>
    /\ LoadFrame

\* playground_data = json.load(f)
PlaygroundsLoaded ==
    /\ pc = "load_playgrounds"
    /\ playground_data' \in PlaygroundFiles
    /\ pc' = "build"
    /\ UNCHANGED <<sprinkler_data, load_error>>
    /\ LoadFrame

\* The handler of a missing playground file, had it no return.
PlaygroundsNotFoundGoesOn ==
    /\ pc = "load_playgrounds"
    /\ load_error' = "playgrounds_not_found"
    /\ pc' = "build"
    /\ UNCHANGED <<sprinkler_data, playground_data>>
    /\ LoadFrame

\* except FileNotFoundError: return
PlaygroundsNotFound ==
    /\ pc = "load_playgrounds"
    /\ load_error' = "playgrounds_not_found"
    /\ pc' = "returned"
    /\ UNCHANGED <<sprinkler_data, playground_data>>
    /\ LoadFrame

\* except json.JSONDecodeError: return
PlaygroundsMalformed ==
    /\ pc = "load_playgrounds"
    /\ load_error' = "playgrounds_malformed"
    /\ pc' = "returned"
    /\ UNCHANGED <<sprinkler_data, playground_data>>
    /\ LoadFrame

\* name = sprinkler.get('subpropertyname', '').strip()
SprinklerName(sprinkler) == Strip(Get(sprinkler, "subpropertyname", <<>>))

\* the value stored in sprinkler_lookup for a record
SprinklerInfo(sprinkler) ==
    [status |-> Get(sprinkler, "status", <<>>),
     system |-> Get(sprinkler, "system", <<>>),
     district |-> Get(sprinkler, "district", <<>>),
     featuretype |-> Get(sprinkler, "featuretype", <<>>)]

\* sprinkler_names after the loop over sprinkler_data: the non-empty names
PoolNames(data) == {SprinklerName(data[i]) : i \in 1..Len(data)} \ {<<>>}

\* sprinkler_lookup after the loop: a later record of a name overwrites an
\* earlier one
LookupOf(data) ==
    [n \in PoolNames(data) |->
        LET last == CHOOSE i \in 1..Len(data) :
                        /\ SprinklerName(data[i]) = n
                        /\ \A j \in (i + 1)..Len(data) : SprinklerName(data[j]) # n
        IN  SprinklerInfo(data[last])]

\* The loop that fills sprinkler_names and sprinkler_lookup.  names_order is
\* the order in which the set sprinkler_names is iterated: any order, the
\* same for the whole run as the set is not changed afterwards.
BuildPool ==
    /\ pc = "build"
    /\ sprinkler_names' = PoolNames(sprinkler_data)
    /\ sprinkler_lookup' = LookupOf(sprinkler_data)
    /\ names_order' \in Orders(PoolNames(sprinkler_data))
    /\ pc' = "match"
    /\ UNCHANGED <<sprinkler_data, playground_data, enhanced_playgrounds, matched,
                   output_file, output_written, load_error, write_attempts, normVars, matchVars>>

\* The default of find_best_match's threshold parameter, 0.98, were it used
\* by main.
ThresholdDefault == [num |-> 49, den |-> 50]

\* threshold=0.8 at main's call of find_best_match
MainThreshold == [num |-> 4, den |-> 5]

\* The first loop of the body: the first name of the pool equal to the
\* playground's name, both lowercased and trimmed; None without any.
RawExactMatch(playground_name, names) ==
    LET hits == {i \in 1..Len(names) : Lowered(playground_name) = Lowered(names[i])}
    IN  IF hits = {} THEN None ELSE names[First(hits)]

\* the four keys of a record with a sprinkler
WithSprinkler(enhanced, info) ==
    Assign(Assign(Assign(Assign(enhanced,
        "has_sprinkler", TRUE),
        "sprinkler_status", info.status),
        "sprinkler_system", info.system),
        "sprinkler_district", info.district)

\* the four keys as the body initializes them
WithoutSprinkler(playground) ==
    Assign(Assign(Assign(Assign(playground,
        "has_sprinkler", FALSE),
        "sprinkler_status", None),
        "sprinkler_system", None),
        "sprinkler_district", None)

\* The candidate the body of the loop matches playground_name with: the raw
\* exact match, else find_best_match's at threshold 0.8; None for an empty name.
MatchFor(playground_name) ==
    IF playground_name = <<>> THEN None
    ELSE IF RawExactMatch(playground_name, names_order) # None
         THEN RawExactMatch(playground_name, names_order)
         ELSE find_best_match(playground_name, names_order, MainThreshold).match

\* One iteration of the loop over playground_data: the record at the next
\* position is copied, enriched and appended to enhanced_playgrounds.
MatchRecord ==
    /\ pc = "match"
    /\ Len(enhanced_playgrounds) < Len(playground_data)
    /\ LET playground == playground_data[Len(enhanced_playgrounds) + 1]
           playground_name == Strip(Get(playground, "Name", <<>>))
           match == MatchFor(playground_name)
           enhanced == IF match = None
                       THEN WithoutSprinkler(playground)
                       ELSE WithSprinkler(WithoutSprinkler(playground),
                                          sprinkler_lookup[match])
       IN  /\ enhanced_playgrounds' = Append(enhanced_playgrounds, enhanced)
           /\ matched' = Append(matched, match)
    /\ UNCHANGED <<pc, sprinkler_data, playground_data, sprinkler_names, names_order,
                   sprinkler_lookup, output_file, output_written, load_error,
                   write_attempts, normVars, matchVars>>

\* json.dump(enhanced_playgrounds, f) once the loop has ended
WriteOutput ==
    /\ pc = "match"
    /\ Len(enhanced_playgrounds) = Len(playground_data)
    /\ output_file' = enhanced_playgrounds
    /\ output_written' = TRUE
    /\ write_attempts' = write_attempts + 1
    /\ pc' = "stats"
    /\ UNCHANGED <<sprinkler_data, playground_data, sprinkler_names, names_order,
                   sprinkler_lookup, enhanced_playgrounds, matched, load_error,
                   normVars, matchVars>>

\* except Exception: return
WriteFails ==
    /\ pc = "match"
    /\ Len(enhanced_playgrounds) = Len(playground_data)
    /\ write_attempts' = write_attempts + 1
    /\ pc' = "returned"
    /\ UNCHANGED <<sprinkler_data, playground_data, sprinkler_names, names_order,
                   sprinkler_lookup, enhanced_playgrounds, matched, output_file,
                   output_written, load_error, normVars, matchVars>>

\* The statistics: the match rate divides by len(playground_data), which
\* raises ZeroDivisionError for an empty playground file.
PrintStatistics ==
    /\ pc = "stats"
    /\ pc' = IF Len(playground_data) = 0 THEN "raised" ELSE "returned"
    /\ UNCHANGED <<sprinkler_data, playground_data, sprinkler_names, names_order,
                   sprinkler_lookup, enhanced_playgrounds, matched, output_file,
                   output_written, load_error, write_attempts, normVars, matchVars>>

Next ==
    \/ SprinklersLoaded
    \/ SprinklersNotFound
    \/ SprinklersMalformed
    \/ PlaygroundsLoaded
    \/ PlaygroundsNotFound
    \/ PlaygroundsMalformed
    \/ BuildPool
    \/ MatchRecord
    \/ WriteOutput
    \/ WriteFails
    \/ PrintStatistics

Spec == Init /\ [][Next]_vars

(***************************************************************************)
(* Claims about normalize_name, checked under SpecNormalize.               *)
(***************************************************************************)

\* C5: normalize_name is idempotent: normalizing the output of normalize_name
\* gives that output again, for every input.
C5_Idempotent == npc = "renormalized" => renormalized = normalized

\* name without its punctuation characters
DropPunct(s) == SelectSeq(s, LAMBDA c : c \notin PunctChars)

\* C6: punctuation invariance: a name and the same name with its punctuation
\* characters left out (two names that differ only by punctuation) normalize
\* to the same string.
C6_PunctuationInvariant ==
    (npc # "input" /\ ~IsEmptyName(name))
        => normalized = normalize_name(DropPunct(name))

SuffixIndices == 1..Len(suffixes_to_remove)

\* the listed suffixes s ends with
MatchingSuffixes(s) == {i \in SuffixIndices : EndsWith(s, suffixes_to_remove[i])}

\* s with the longest listed suffix it ends with removed, once
OneSuffixRemoved(s) ==
    IF MatchingSuffixes(s) = {} THEN s
    ELSE LET i == CHOOSE i \in MatchingSuffixes(s) :
                      \A j \in MatchingSuffixes(s) :
                          Len(suffixes_to_remove[j]) <= Len(suffixes_to_remove[i])
         IN  Strip(SubSeq(s, 1, Len(s) - Len(suffixes_to_remove[i])))

\* C7 as stated: the suffix step removes exactly one trailing suffix, the
\* longest listed one the lowercased trimmed name ends with, and does not
\* strip the remainder again.
C7_StripsExactlyOne ==
    (npc # "input" /\ ~IsEmptyName(name))
        => stripped.text = OneSuffixRemoved(Lowered(name))

RECURSIVE RemovedLength(_)
RemovedLength(r) ==
    IF r = <<>> THEN 0 ELSE Len(suffixes_to_remove[Head(r)]) + RemovedLength(Tail(r))

\* C7 as amended: the suffix step tries every listed suffix once, in list order,
\* and removes each one the string ends with at that moment: a suffix is
\* removed iff the lowercased trimmed name ends with a listed suffix, the
\* removed suffixes come in strictly increasing list position (several may be
\* removed), what is left is a prefix of the name shorter by at least the
\* removed suffixes, and it ends with no suffix listed after the last one
\* removed (with none removed, with no listed suffix at all).
C7_StripsInListOrder ==
    (npc # "input" /\ ~IsEmptyName(name)) =>
        LET r == stripped.removed
            low == Lowered(name)
            t == stripped.text
        IN  /\ (r # <<>>) <=> (MatchingSuffixes(low) # {})
            /\ \A k \in 1..(Len(r) - 1) : r[k] < r[k + 1]
            /\ Len(t) + RemovedLength(r) <= Len(low)
            /\ t = SubSeq(low, 1, Len(t))
            /\ \A j \in SuffixIndices :
                   (r = <<>> \/ j > r[Len(r)]) => ~EndsWith(t, suffixes_to_remove[j])

\* "a Tot Lot Park": " park" is removed, then " tot lot"
C7_Witness ==
    /\ npc = "normalized"
    /\ name = <<"a"," ","T","o","t"," ","L","o","t"," ","P","a","r","k">>
    /\ stripped = [text |-> <<"a">>, removed |-> <<4, 5>>]

(***************************************************************************)
(* Claims about find_best_match, checked under SpecMatch.                  *)
(***************************************************************************)
\* the candidates of the pool whose normalized name is the normalized query
ExactCandidates == {c \in pool : normalize_name(c) = normalize_name(query)}

\* C1: when the pool holds a candidate whose normalized name equals the
\* normalized query, find_best_match returns such a candidate with score 1.0,
\* scores no candidate in the fuzzy loop, and returns the same at every
\* threshold, thresholds above 1.0 included.
C1_ExactPassPrecedence ==
    (mpc = "returned" /\ ExactCandidates # {}) =>
        /\ result.match \in ExactCandidates
        /\ result.score = OneScore
        /\ result.scored = 0
        /\ \A t \in Thresholds :
               \A r \in {find_best_match(query, order, t)} :
                   r.match = result.match /\ r.score = result.score

\* "Fort Greene Park" against a pool holding "Fort Greene Playground" at 1.5
C1_Witness ==
    /\ mpc = "returned"
    /\ query = <<"F","o","r","t"," ","G","r","e","e","n","e"," ","P","a","r","k">>
    /\ pool = { <<"F","o","r","t"," ","G","r","e","e","n","e"," ",
                  "P","l","a","y","g","r","o","u","n","d">>,
                <<"a"," ","b"," ","d">> }
    /\ threshold = [num |-> 3, den |-> 2]
    /\ result.match = <<"F","o","r","t"," ","G","r","e","e","n","e"," ",
                        "P","l","a","y","g","r","o","u","n","d">>
    /\ result.score = OneScore

\* a candidate qualifies at threshold t: its score is >= t, and it shares two
\* normalized words with the query or scores above 0.99
Qualifies(c, t) ==
    /\ ~Less(similarity_score(query, c), t)
    /\ \/ SharedWords(query, c) >= 2
       \/ Less(NearOne, similarity_score(query, c))

Qualifying(t) == {c \in pool : Qualifies(c, t)}

DanRoss == <<"D","a","n"," ","R","o","s","s"," ","P","l","a","y","g","r","o","u","n","d">>
DianaRoss == <<"D","i","a","n","a"," ","R","o","s","s"," ","P","a","r","k">>

\* C2: with no normalized exact match in the pool, the result is (None, 0.0)
\* iff no candidate qualifies; otherwise the returned candidate qualifies and
\* its score is the greatest score of a qualifying candidate.  "Dan Ross
\* Playground" against the sole candidate "Diana Ross Park" is no match at
\* every threshold.
C2_FuzzySelection ==
    (mpc = "returned" /\ ExactCandidates = {}) =>
        \A Q \in {Qualifying(threshold)} :
            /\ (result.match = None) <=> (Q = {})
            /\ result.match = None => result.score = ZeroScore
            /\ result.match # None =>
                   /\ result.match \in Q
                   /\ result.score = similarity_score(query, result.match)
                   /\ \A c \in Q : ~Less(result.score, similarity_score(query, c))
            /\ (query = DanRoss /\ pool = {DianaRoss}) => result.match = None

\* "a b c" against {"a b d" (0.8), "a b cd" (10/11)} at 0.8: the greater wins
C2_Witness ==
    /\ mpc = "returned"
    /\ query = <<"a"," ","b"," ","c">>
    /\ pool = { <<"a"," ","b"," ","d">>, <<"a"," ","b"," ","c","d">> }
    /\ threshold = [num |-> 4, den |-> 5]
    /\ result.match = <<"a"," ","b"," ","c","d">>
    /\ result.score = [num |-> 10, den |-> 11]

\* C3: with the pool scanned in the same order, for thresholds t1 <= t2: no
\* match at t1 means no match at t2, and a match at t2 means the same
\* candidate with the same score at t1.
C3_ThresholdMonotone ==
    mpc = "returned" =>
        \A t2 \in {t \in Thresholds : ~Less(t, threshold)} :
            \A r2 \in {find_best_match(query, order, t2)} :
                /\ result.match = None => r2.match = None
                /\ r2.match # None =>
                       r2.match = result.match /\ r2.score = result.score

\* "a b c" against <"a b cd", "a b d"> at 0.8: both qualify, and at 0.9 only
\* the returned one does
C3_Witness ==
    /\ mpc = "returned"
    /\ query = <<"a"," ","b"," ","c">>
    /\ order = << <<"a"," ","b"," ","c","d">>, <<"a"," ","b"," ","d">> >>
    /\ threshold = [num |-> 4, den |-> 5]
    /\ result.match = <<"a"," ","b"," ","c","d">>
    /\ find_best_match(query, order, [num |-> 9, den |-> 10]).match = result.match

\* C4 as stated: the result is the same (candidate, score) for every order in
\* which the pool may be enumerated.
C4_OrderIndependent ==
    mpc = "returned" =>
        \A o \in Orders(pool) :
            \A r \in {find_best_match(query, o, threshold)} :
                r.match = result.match /\ r.score = result.score

\* the candidates that can be returned: the normalized exact matches, or
\* without any the qualifying candidates of the greatest score
Winners ==
    IF ExactCandidates # {} THEN ExactCandidates
    ELSE LET Q == Qualifying(threshold)
         IN  {c \in Q : \A d \in Q :
                  ~Less(similarity_score(query, c), similarity_score(query, d))}

\* C4 as amended: for every enumeration order the score and whether there is
\* a match are the same; the candidate is the first one in enumeration order
\* among the normalized exact matches (without any, among the qualifying
\* candidates of the greatest score), so it is the same for every order
\* unless several candidates tie in that way.
C4_SameUpToTies ==
    mpc = "returned" =>
        \A W \in {Winners}, o \in Orders(pool) :
            \A r \in {find_best_match(query, o, threshold)} :
                /\ r.score = result.score
                /\ (r.match = None) <=> (result.match = None)
                /\ (r.match = None) <=> (W = {})
                /\ r.match # None =>
                       \E i \in 1..Len(o) :
                           /\ o[i] = r.match
                           /\ o[i] \in W
                           /\ \A k \in 1..(i - 1) : o[k] \notin W
                /\ Cardinality(W) <= 1 => r.match = result.match

\* "a b c" against {"a b d", "a b e"}, both 0.8: the first enumerated is returned
C4_Witness ==
    /\ mpc = "returned"
    /\ query = <<"a"," ","b"," ","c">>
    /\ order = << <<"a"," ","b"," ","e">>, <<"a"," ","b"," ","d">> >>
    /\ threshold = [num |-> 4, den |-> 5]
    /\ result.match = <<"a"," ","b"," ","e">>
    /\ result.score = [num |-> 4, den |-> 5]

\* C8: find_best_match with an absent or empty query returns no match, whatever
\* the pool and the threshold.
C8_EmptyQueryNoMatch ==
    (mpc = "returned" /\ IsEmptyName(query)) => result.match = None

(***************************************************************************)
(* Claims about main, checked under Spec.                                  *)
(***************************************************************************)
SprinklerKeys ==
    {"has_sprinkler", "sprinkler_status", "sprinkler_system", "sprinkler_district"}

\* the names of the pool equal to n when both are lowercased and trimmed
RawEqual(n) == {c \in sprinkler_names : Lowered(n) = Lowered(c)}

C10_AbortOrdering ==
    /\ load_error # "none" =>
           /\ pc = "returned"
           /\ sprinkler_names = {}
           /\ enhanced_playgrounds = <<>>
           /\ matched = <<>>
           /\ write_attempts = 0
           /\ ~output_written
    /\ load_error \in {"sprinklers_not_found", "sprinklers_malformed"} =>
           playground_data = <<>>
    /\ write_attempts > 0 =>
           /\ load_error = "none"
           /\ pc \in {"stats", "returned", "raised"}
           /\ Len(enhanced_playgrounds) = Len(playground_data)
    /\ write_attempts <= 1
    /\ output_written => write_attempts = 1 /\ output_file = enhanced_playgrounds
    /\ (write_attempts = 1 /\ ~output_written) => pc = "returned"
    /\ ~output_written => output_file = <<>>

\* the playground file is missing after sprinklers.json was loaded with two
\* records: the run has ended without a pool, a match or a write
C10_Witness ==
    /\ load_error = "playgrounds_not_found"
    /\ pc = "returned"
    /\ Len(sprinkler_data) = 2
    /\ write_attempts = 0

====
